---- MODULE Spec2Model ----
(***************************************************************************)
(* dPad: a Power BI custom visual that moves a selection cursor over one   *)
(* or two category axes.  The model follows src/src/visual.ts: the view    *)
(* model builder visualTransform, the lifecycle callback update, the       *)
(* navigator step and the eight click handlers of the constructor.         *)
(***************************************************************************)
EXTENDS Integers, Sequences, FiniteSets, TLC

VARIABLES
    viewModel,      \* this.viewModel (this.visualSettings aliases viewModel.settings)
    lastSelected,   \* this.lastSelected, the cursor
    clicked,        \* the button whose click handler ran last; "" after
                    \* construction and after update
    trace,          \* the calls of step made by that handler, with what each did
    options         \* the data view of the options the host passes to update, in
                    \* the runs in which it is the same at every update
                    \* (SpecFixed); Unrecorded in the runs of Spec

vars == <<viewModel, lastSelected, clicked, trace, options>>

----------------------------------------------------------------------------
(* Bounds of the model *)

\* longest category column (number of rows) an update delivers
MaxRows == 3

\* longest category column of the runs on one fixed data view
MaxGridRows == 4

\* category labels; only their equality is ever inspected
Labels == {"X", "Y"}

----------------------------------------------------------------------------
(* Inputs of update: the data views the host can deliver *)

Column(name, roles) == [displayName |-> name, roles |-> roles]

HCol == Column("h", {"horizontalCategory"})
VCol == Column("v", {"verticalCategory"})
MCol == Column("m", {"measure"})
\* a vertical column whose display name equals the horizontal column's
VColNamedH == Column("h", {"verticalCategory"})

\* metadata.columns of the data views considered
Layouts ==
    { <<>>, <<HCol>>, <<VCol>>, <<HCol, VCol>>, <<VCol, HCol>>,
      <<MCol, HCol>>, <<VColNamedH, HCol>> }

\* value sequences of n rows, up to renaming of labels (the first row is "X")
RowValues(n) == { s \in [1..n -> Labels] : n = 0 \/ s[1] = "X" }

IsCategoryColumn(c) ==
    c.roles \cap {"horizontalCategory", "verticalCategory"} # {}

\* categorical.categories: one column per category column of the metadata,
\* all with the same number n of rows
CategoriesOfRows(layout, n) ==
    LET cc == SelectSeq(layout, IsCategoryColumn)
    IN  { [i \in 1..Len(cc) |->
             [displayName |-> cc[i].displayName, values |-> vs[i]]] :
          vs \in [1..Len(cc) -> RowValues(n)] }

CategoriesFor(layout) ==
    UNION { CategoriesOfRows(layout, n) : n \in 0..MaxRows }

\* a property of metadata.objects.settings: <<>> when absent, <<v>> when set
Absent == <<>>
Present(v) == <<v>>

NoSettings ==
    [horizontal |-> Absent, vertical |-> Absent, diagonal |-> Absent,
     incremental |-> Absent]

\* metadata.objects of the data views considered
ObjectsChoices ==
    { [settings |-> NoSettings],
      [settings |-> [NoSettings EXCEPT !.incremental = Present(2)]],
      [settings |-> [NoSettings EXCEPT !.incremental = Present(0)]],
      [settings |-> [NoSettings EXCEPT !.diagonal = Present(TRUE),
                                       !.horizontal = Present(FALSE)]] }

DataViews ==
    UNION { { [columns |-> layout, categories |-> cats, objects |-> o] :
              cats \in CategoriesFor(layout), o \in ObjectsChoices } :
            layout \in Layouts }

\* a column tagged with both category roles
HVCol == Column("b", {"horizontalCategory", "verticalCategory"})

\* metadata.columns of the data views of the runs on one fixed data view
FixedLayouts ==
    { <<>>, <<HCol>>, <<VCol>>, <<HCol, VCol>>, <<VCol, HCol>>, <<HVCol>>,
      <<MCol, HCol>>, <<MCol, VCol>>, <<MCol, HCol, VCol>> }

\* metadata.objects of those data views
FixedObjectsChoices ==
    { [settings |-> NoSettings],
      [settings |-> [NoSettings EXCEPT !.diagonal = Present(TRUE)]],
      [settings |-> [NoSettings EXCEPT !.diagonal = Present(TRUE),
                                       !.horizontal = Present(FALSE)]],
      [settings |-> [NoSettings EXCEPT !.diagonal = Present(TRUE),
                                       !.vertical = Present(FALSE)]],
      [settings |-> [NoSettings EXCEPT !.incremental = Present(2)]],
      [settings |-> [NoSettings EXCEPT !.incremental = Present(0)]] }

FixedDataViews ==
    UNION { { [columns |-> layout, categories |-> cats, objects |-> o] :
              cats \in UNION { CategoriesOfRows(layout, n) : n \in 0..MaxGridRows },
              o \in FixedObjectsChoices } :
            layout \in FixedLayouts }

----------------------------------------------------------------------------
(* Helpers of the host, declared but not defined in src/ *)

\* getValue<T>(objects, objectName, propertyName, defaultValue)
getValue(objects, objectName, propertyName, defaultValue) ==
    IF objectName \in DOMAIN objects
       /\ propertyName \in DOMAIN objects[objectName]
       /\ objects[objectName][propertyName] # Absent
    THEN objects[objectName][propertyName][1]
    ELSE defaultValue

\* host.createSelectionIdBuilder().withCategory(category, i).createSelectionId():
\* an opaque handle naming row i of categories[categoryIdx] (both 0-based)
createSelectionId(categoryIdx, i) == [category |-> categoryIdx, index |-> i]

\* selectionManager.select(id) on a selection sel: the selection becomes the
\* single handle id
select(sel, id) == {id}

----------------------------------------------------------------------------
(* visualTransform *)

Max(S) == CHOOSE x \in S : \A y \in S : y <= x

\* first loop: display names of the role-tagged columns, and sortedBy
HorizontalColumns(columns) ==
    { i \in 1..Len(columns) : "horizontalCategory" \in columns[i].roles }

VerticalColumns(columns) ==
    { i \in 1..Len(columns) : /\ "horizontalCategory" \notin columns[i].roles
                              /\ "verticalCategory" \in columns[i].roles }

horizontalDisplayName(columns) ==
    IF HorizontalColumns(columns) = {} THEN ""
    ELSE columns[Max(HorizontalColumns(columns))].displayName

verticalDisplayName(columns) ==
    IF VerticalColumns(columns) = {} THEN ""
    ELSE columns[Max(VerticalColumns(columns))].displayName

\* sortedBy without the test i == 0: the last role-tagged column sets it
sortedByOfLastRole(columns) ==
    LET tagged == HorizontalColumns(columns) \cup VerticalColumns(columns)
    IN  IF tagged = {} THEN ""
        ELSE IF Max(tagged) \in HorizontalColumns(columns) THEN "horizontal"
        ELSE "vertical"

sortedByOf(columns) ==
    IF 1 \in HorizontalColumns(columns) THEN "horizontal"
    ELSE IF 1 \in VerticalColumns(columns) THEN "vertical"
    ELSE ""

\* second loop: index in categories of each axis (0-based, -1 when absent)
horizontalIdxInCategories(dv) ==
    LET m == { i \in 1..Len(dv.categories) :
                 dv.categories[i].displayName = horizontalDisplayName(dv.columns) }
    IN  IF m = {} THEN -1 ELSE Max(m) - 1

verticalIdxInCategories(dv) ==
    LET m == { i \in 1..Len(dv.categories) :
                 /\ dv.categories[i].displayName # horizontalDisplayName(dv.columns)
                 /\ dv.categories[i].displayName = verticalDisplayName(dv.columns) }
    IN  IF m = {} THEN -1 ELSE Max(m) - 1

\* the data points of categories[idx]; none when the axis is absent
dataPointsOf(dv, idx) ==
    IF idx > -1
    THEN [i \in 1..Len(dv.categories[idx + 1].values) |->
            [category    |-> dv.categories[idx + 1].values[i],
             selectionId |-> createSelectionId(idx, i - 1)]]
    ELSE <<>>

numberOfAxisOf(dv) ==
    (IF horizontalIdxInCategories(dv) > -1 THEN 1 ELSE 0)
    + (IF verticalIdxInCategories(dv) > -1 THEN 1 ELSE 0)

visualSettingsOf(objects) ==
    [horizontal  |-> getValue(objects, "settings", "horizontal", TRUE),
     vertical    |-> getValue(objects, "settings", "vertical", TRUE),
     diagonal    |-> getValue(objects, "settings", "diagonal", FALSE),
     incremental |-> getValue(objects, "settings", "incremental", 1)]

visualTransform(dv) ==
    [horizontalDataPoints |-> dataPointsOf(dv, horizontalIdxInCategories(dv)),
     verticalDataPoints   |-> dataPointsOf(dv, verticalIdxInCategories(dv)),
     numberOfAxis         |-> numberOfAxisOf(dv),
     sortedBy             |-> sortedByOf(dv.columns),
     settings             |-> visualSettingsOf(dv.objects)]

----------------------------------------------------------------------------
(* State after construction *)

\* this.viewModel and this.visualSettings before the first update
Undefined == [undefined |-> TRUE]

\* options of a run whose updates are not all passed the same data view
Unrecorded == [unrecorded |-> TRUE]

Init ==
    /\ viewModel = Undefined
    /\ lastSelected = 0
    /\ clicked = ""
    /\ trace = <<>>
    /\ options = Unrecorded

----------------------------------------------------------------------------
(* step *)

\* the outcome of one call of step: the cursor it leaves, whether it assigned
\* the cursor, the handle it passed to selectionManager.select (none or one),
\* and whether it threw
Outcome(ls, assigned, selected, threw) ==
    [lastSelected |-> ls, assigned |-> assigned, selected |-> selected,
     threw |-> threw]

\* an early return: nothing written, nothing selected
Return(ls) == Outcome(ls, FALSE, <<>>, FALSE)

\* the loop pushing every category, without the indexOf test
uniqueUpToKeepingAll(dataPoints, n) ==
    [i \in 1..n |-> dataPoints[i].category]

\* the loops building uniqueVerticalCount / uniqueHorizontalCount: the distinct
\* categories of the first n data points, in order of first occurrence
RECURSIVE uniqueUpTo(_, _)
uniqueUpTo(dataPoints, n) ==
    IF n = 0 THEN <<>>
    ELSE LET acc == uniqueUpTo(dataPoints, n - 1)
         IN  IF \E j \in 1..Len(acc) : acc[j] = dataPoints[n].category
             THEN acc
             ELSE Append(acc, dataPoints[n].category)

uniqueVerticalCount(vm) ==
    uniqueUpTo(vm.verticalDataPoints, Len(vm.verticalDataPoints))

uniqueHorizontalCount(vm) ==
    uniqueUpTo(vm.horizontalDataPoints, Len(vm.horizontalDataPoints))

\* dataPointsToUse with the two branches exchanged
dataPointsToUseExchanged(vm) ==
    IF vm.sortedBy = "horizontal" THEN vm.verticalDataPoints
    ELSE vm.horizontalDataPoints

dataPointsToUse(vm) ==
    IF vm.sortedBy = "horizontal" THEN vm.horizontalDataPoints
    ELSE vm.verticalDataPoints

\* this.lastSelected = ls; this.selectionManager.select(dataPointsToUse[ls].selectionId):
\* reading .selectionId of a missing element throws, after the cursor was written
assignAndSelect(vm, ls) ==
    IF ls \in 0..(Len(dataPointsToUse(vm)) - 1)
    THEN Outcome(ls, TRUE, <<dataPointsToUse(vm)[ls + 1].selectionId>>, FALSE)
    ELSE Outcome(ls, TRUE, <<>>, TRUE)

\* stepVerticalInner checking the target against the whole axis [0, V-1]
\* instead of the cursor's group
stepVerticalInnerWholeAxis(vm, ls, incrementalStep) ==
    LET numberOfPoints == Len(vm.verticalDataPoints)
    IN  IF numberOfPoints = 0 THEN Return(ls)
        ELSE IF (ls + incrementalStep) < 0
                \/ (ls + incrementalStep) > (numberOfPoints - 1)
             THEN Return(ls)
             ELSE assignAndSelect(vm, ls + incrementalStep)

\* stepVerticalInner testing and grouping the horizontal axis instead of the
\* vertical one
stepVerticalInnerOtherAxis(vm, ls, incrementalStep) ==
    LET numberOfPoints == Len(vm.horizontalDataPoints)
        u == Len(uniqueHorizontalCount(vm))
        currentGroup == ls \div u
        minGroup == currentGroup * u
        maxGroup == (currentGroup + 1) * u - 1
    IN  IF numberOfPoints = 0 THEN Return(ls)
        ELSE IF (ls + incrementalStep) < minGroup \/ (ls + incrementalStep) > maxGroup
             THEN Return(ls)
             ELSE assignAndSelect(vm, ls + incrementalStep)

\* stepVerticalInner clamping an out-of-group target to the group's bound
\* instead of rejecting the step
stepVerticalInnerClamped(vm, ls, incrementalStep) ==
    LET numberOfPoints == Len(vm.verticalDataPoints)
        u == Len(uniqueVerticalCount(vm))
        currentGroup == ls \div u
        minGroup == currentGroup * u
        maxGroup == (currentGroup + 1) * u - 1
    IN  IF numberOfPoints = 0 THEN Return(ls)
        ELSE IF (ls + incrementalStep) < minGroup THEN assignAndSelect(vm, minGroup)
        ELSE IF (ls + incrementalStep) > maxGroup THEN assignAndSelect(vm, maxGroup)
        ELSE assignAndSelect(vm, ls + incrementalStep)

\* direction == "v" && sortedBy == "horizontal"
stepVerticalInner(vm, ls, incrementalStep) ==
    LET numberOfPoints == Len(vm.verticalDataPoints)
        u == Len(uniqueVerticalCount(vm))
        currentGroup == ls \div u
        minGroup == currentGroup * u
        maxGroup == (currentGroup + 1) * u - 1
    IN  IF numberOfPoints = 0 THEN Return(ls)
        ELSE IF (ls + incrementalStep) < minGroup \/ (ls + incrementalStep) > maxGroup
             THEN Return(ls)
             ELSE assignAndSelect(vm, ls + incrementalStep)

\* stepHorizontalOuter with the upper bounds off by one
stepHorizontalOuterOffByOne(vm, ls, incrementalStep) ==
    LET numberOfPoints == Len(vm.horizontalDataPoints)
        u == Len(uniqueVerticalCount(vm))
    IN  IF numberOfPoints = 0 THEN Return(ls)
        ELSE IF Len(vm.verticalDataPoints) = 0
             THEN IF (ls + incrementalStep) < 0
                     \/ (ls + incrementalStep) > numberOfPoints
                  THEN Return(ls)
                  ELSE assignAndSelect(vm, ls + incrementalStep)
             ELSE IF (ls + incrementalStep * u) < 0
                     \/ (ls + incrementalStep * u) > numberOfPoints
                  THEN Return(ls)
                  ELSE assignAndSelect(vm, ls + incrementalStep * u)

\* stepHorizontalOuter without the scaling by the inner group's size
stepHorizontalOuterUnscaled(vm, ls, incrementalStep) ==
    LET numberOfPoints == Len(vm.horizontalDataPoints)
    IN  IF numberOfPoints = 0 THEN Return(ls)
        ELSE IF (ls + incrementalStep) < 0
                \/ (ls + incrementalStep) > (numberOfPoints - 1)
             THEN Return(ls)
             ELSE assignAndSelect(vm, ls + incrementalStep)

\* direction == "h" && sortedBy == "horizontal"
stepHorizontalOuter(vm, ls, incrementalStep) ==
    LET numberOfPoints == Len(vm.horizontalDataPoints)
        u == Len(uniqueVerticalCount(vm))
    IN  IF numberOfPoints = 0 THEN Return(ls)
        ELSE IF Len(vm.verticalDataPoints) = 0
             THEN IF (ls + incrementalStep) < 0
                     \/ (ls + incrementalStep) > (numberOfPoints - 1)
                  THEN Return(ls)
                  ELSE assignAndSelect(vm, ls + incrementalStep)
             ELSE IF (ls + incrementalStep * u) < 0
                     \/ (ls + incrementalStep * u) > (numberOfPoints - 1)
                  THEN Return(ls)
                  ELSE assignAndSelect(vm, ls + incrementalStep * u)

\* stepVerticalOuter scaling by the distinct labels of the vertical axis
\* instead of the horizontal one
stepVerticalOuterOwnAxis(vm, ls, incrementalStep) ==
    LET numberOfPoints == Len(vm.verticalDataPoints)
        u == Len(uniqueVerticalCount(vm))
    IN  IF numberOfPoints = 0 THEN Return(ls)
        ELSE IF Len(vm.horizontalDataPoints) = 0
             THEN IF (ls + incrementalStep) < 0
                     \/ (ls + incrementalStep) > (numberOfPoints - 1)
                  THEN Return(ls)
                  ELSE assignAndSelect(vm, ls + incrementalStep)
             ELSE IF (ls + incrementalStep * u) < 0
                     \/ (ls + incrementalStep * u) > (numberOfPoints - 1)
                  THEN Return(ls)
                  ELSE assignAndSelect(vm, ls + incrementalStep * u)

\* direction == "v" && sortedBy == "vertical"
stepVerticalOuter(vm, ls, incrementalStep) ==
    LET numberOfPoints == Len(vm.verticalDataPoints)
        u == Len(uniqueHorizontalCount(vm))
    IN  IF numberOfPoints = 0 THEN Return(ls)
        ELSE IF Len(vm.horizontalDataPoints) = 0
             THEN IF (ls + incrementalStep) < 0
                     \/ (ls + incrementalStep) > (numberOfPoints - 1)
                  THEN Return(ls)
                  ELSE assignAndSelect(vm, ls + incrementalStep)
             ELSE IF (ls + incrementalStep * u) < 0
                     \/ (ls + incrementalStep * u) > (numberOfPoints - 1)
                  THEN Return(ls)
                  ELSE assignAndSelect(vm, ls + incrementalStep * u)

\* stepHorizontalInner without the test against the group's first cursor
stepHorizontalInnerUpperOnly(vm, ls, incrementalStep) ==
    LET numberOfPoints == Len(vm.horizontalDataPoints)
        u == Len(uniqueHorizontalCount(vm))
        currentGroup == ls \div u
        maxGroup == (currentGroup + 1) * u - 1
    IN  IF numberOfPoints = 0 THEN Return(ls)
        ELSE IF (ls + incrementalStep) > maxGroup
             THEN Return(ls)
             ELSE assignAndSelect(vm, ls + incrementalStep)

\* stepHorizontalInner checking the target against the whole axis [0, H-1]
\* instead of the cursor's group
stepHorizontalInnerWholeAxis(vm, ls, incrementalStep) ==
    LET numberOfPoints == Len(vm.horizontalDataPoints)
    IN  IF numberOfPoints = 0 THEN Return(ls)
        ELSE IF (ls + incrementalStep) < 0
                \/ (ls + incrementalStep) > (numberOfPoints - 1)
             THEN Return(ls)
             ELSE assignAndSelect(vm, ls + incrementalStep)

\* direction == "h" && sortedBy == "vertical"
stepHorizontalInner(vm, ls, incrementalStep) ==
    LET numberOfPoints == Len(vm.horizontalDataPoints)
        u == Len(uniqueHorizontalCount(vm))
        currentGroup == ls \div u
        minGroup == currentGroup * u
        maxGroup == (currentGroup + 1) * u - 1
    IN  IF numberOfPoints = 0 THEN Return(ls)
        ELSE IF (ls + incrementalStep) < minGroup \/ (ls + incrementalStep) > maxGroup
             THEN Return(ls)
             ELSE assignAndSelect(vm, ls + incrementalStep)

\* let incrementalStep = incremental*step
incrementalStepOf(vm, stepSign) == vm.settings.incremental * stepSign

\* step returning at once for a direction whose arrows are disabled
stepGatedByFlags(vm, ls, direction, stepSign) ==
    IF vm = Undefined THEN Outcome(ls, FALSE, <<>>, TRUE)
    ELSE IF direction = "h" /\ ~vm.settings.horizontal THEN Return(ls)
    ELSE IF direction = "v" /\ ~vm.settings.vertical THEN Return(ls)
    ELSE IF direction = "v" /\ vm.sortedBy = "horizontal"
         THEN stepVerticalInner(vm, ls, incrementalStepOf(vm, stepSign))
    ELSE IF direction = "h" /\ vm.sortedBy = "horizontal"
         THEN stepHorizontalOuter(vm, ls, incrementalStepOf(vm, stepSign))
    ELSE IF direction = "v" /\ vm.sortedBy = "vertical"
         THEN stepVerticalOuter(vm, ls, incrementalStepOf(vm, stepSign))
    ELSE IF direction = "h" /\ vm.sortedBy = "vertical"
         THEN stepHorizontalInner(vm, ls, incrementalStepOf(vm, stepSign))
    ELSE Return(ls)

\* step taking every sortedBy other than "horizontal" for "vertical", the way
\* dataPointsToUse does
stepSortedByDefault(vm, ls, direction, stepSign) ==
    IF vm = Undefined THEN Outcome(ls, FALSE, <<>>, TRUE)
    ELSE IF direction = "v" /\ vm.sortedBy = "horizontal"
         THEN stepVerticalInner(vm, ls, incrementalStepOf(vm, stepSign))
    ELSE IF direction = "h" /\ vm.sortedBy = "horizontal"
         THEN stepHorizontalOuter(vm, ls, incrementalStepOf(vm, stepSign))
    ELSE IF direction = "v"
         THEN stepVerticalOuter(vm, ls, incrementalStepOf(vm, stepSign))
    ELSE IF direction = "h"
         THEN stepHorizontalInner(vm, ls, incrementalStepOf(vm, stepSign))
    ELSE Return(ls)

\* step(direction, step) on view model vm with cursor ls.  Before the first
\* update this.visualSettings is undefined and reading .settings throws.
step(vm, ls, direction, stepSign) ==
    IF vm = Undefined THEN Outcome(ls, FALSE, <<>>, TRUE)
    ELSE IF direction = "v" /\ vm.sortedBy = "horizontal"
         THEN stepVerticalInner(vm, ls, incrementalStepOf(vm, stepSign))
    ELSE IF direction = "h" /\ vm.sortedBy = "horizontal"
         THEN stepHorizontalOuter(vm, ls, incrementalStepOf(vm, stepSign))
    ELSE IF direction = "v" /\ vm.sortedBy = "vertical"
         THEN stepVerticalOuter(vm, ls, incrementalStepOf(vm, stepSign))
    ELSE IF direction = "h" /\ vm.sortedBy = "vertical"
         THEN stepHorizontalInner(vm, ls, incrementalStepOf(vm, stepSign))
    ELSE Return(ls)

----------------------------------------------------------------------------
(* step of the earlier variant of the visual (src/unnamed/part_000): no     *)
(* sortedBy and no incremental; the handle is read from the axis of the     *)
(* direction                                                                *)

\* this.lastSelected after the constructor of the earlier variant
lastSelectedEarlier == 1

\* stepEarlier moving by one row in direction "h", without the scaling by
\* uniqueSetCount.length
stepEarlierUnscaled(vm, ls, direction, stepSign) ==
    IF vm = Undefined THEN Outcome(ls, FALSE, <<>>, TRUE)
    ELSE IF direction = "v"
         THEN IF (ls + stepSign) < 0
                 \/ (ls + stepSign) > (Len(vm.verticalDataPoints) - 1)
              THEN Return(ls)
              ELSE Outcome(ls + stepSign, TRUE,
                           <<vm.verticalDataPoints[ls + stepSign + 1].selectionId>>,
                           FALSE)
    ELSE IF direction = "h"
         THEN IF (ls + stepSign) < 0
                 \/ (ls + stepSign) > (Len(vm.horizontalDataPoints) - 1)
              THEN Return(ls)
              ELSE Outcome(ls + stepSign, TRUE,
                           <<vm.horizontalDataPoints[ls + stepSign + 1].selectionId>>,
                           FALSE)
    ELSE Return(ls)

\* step(direction, step) of the earlier variant on view model vm with cursor
\* ls; uniqueSetCount holds the distinct categories of the vertical axis.
\* Before the first update this.viewModel is undefined and reading
\* .verticalDataPoints throws.
stepEarlier(vm, ls, direction, stepSign) ==
    LET uniqueSetCount == uniqueUpTo(vm.verticalDataPoints, Len(vm.verticalDataPoints))
    IN  IF vm = Undefined THEN Outcome(ls, FALSE, <<>>, TRUE)
        ELSE IF direction = "v"
             THEN IF (ls + stepSign) < 0
                     \/ (ls + stepSign) > (Len(vm.verticalDataPoints) - 1)
                  THEN Return(ls)
                  ELSE Outcome(ls + stepSign, TRUE,
                               <<vm.verticalDataPoints[ls + stepSign + 1].selectionId>>,
                               FALSE)
        ELSE IF direction = "h"
             THEN LET t == ls + stepSign * Len(uniqueSetCount)
                  IN  IF t < 0 \/ t > (Len(vm.horizontalDataPoints) - 1)
                      THEN Return(ls)
                      ELSE Outcome(t, TRUE,
                                   <<vm.horizontalDataPoints[t + 1].selectionId>>,
                                   FALSE)
        ELSE Return(ls)

----------------------------------------------------------------------------
(* The click handlers attached by the constructor *)

buttonNames == {"up", "down", "left", "right", "diagNW", "diagNE", "diagSE", "diagSW"}

\* the calls of step made by the handler of each button, in order
handlerSteps(button) ==
    CASE button = "up"     -> << <<"v", 1>> >>
      [] button = "down"   -> << <<"v", -1>> >>
      [] button = "left"   -> << <<"h", -1>> >>
      [] button = "right"  -> << <<"h", 1>> >>
      [] button = "diagNE" -> << <<"v", 1>>,  <<"h", 1>> >>
      [] button = "diagNW" -> << <<"v", 1>>,  <<"h", -1>> >>
      [] button = "diagSW" -> << <<"v", -1>>, <<"h", -1>> >>
      [] button = "diagSE" -> << <<"v", -1>>, <<"h", 1>> >>

\* one call of step as the trace records it
Call(direction, stepSign, before, r) ==
    [direction |-> direction, step |-> stepSign, before |-> before,
     after |-> r.lastSelected, assigned |-> r.assigned,
     selected |-> r.selected, threw |-> r.threw]

\* runs the calls one after the other; an exception ends the handler
RECURSIVE runHandler(_, _, _)
runHandler(vm, ls, steps) ==
    IF steps = <<>> THEN <<>>
    ELSE LET r == step(vm, ls, Head(steps)[1], Head(steps)[2])
             c == Call(Head(steps)[1], Head(steps)[2], ls, r)
         IN  IF r.threw THEN <<c>>
             ELSE <<c>> \o runHandler(vm, r.lastSelected, Tail(steps))

\* the click handler of a button; the handlers stay attached whatever the
\* visibility update gives the arrows
click(button) ==
    LET t == runHandler(viewModel, lastSelected, handlerSteps(button))
    IN  /\ lastSelected' = t[Len(t)].after
        /\ clicked' = button
        /\ trace' = t
        /\ UNCHANGED <<viewModel, options>>

----------------------------------------------------------------------------
(* update *)

\* showDiagonal without the tests of the horizontal and vertical flags
showDiagonalAsConfigured(settings) == settings.diagonal

\* showDiagonal, written back into the settings shared with the view model
showDiagonal(settings) ==
    settings.diagonal /\ settings.horizontal /\ settings.vertical

\* what visualTransform(options, this.host) can return to update
TransformedViewModels == { visualTransform(dv) : dv \in DataViews }

\* update putting the cursor back to 0 with every rebuild
updateResetCursor(vm) ==
    /\ viewModel' = [vm EXCEPT !.settings.diagonal = showDiagonal(vm.settings)]
    /\ clicked' = ""
    /\ trace' = <<>>
    /\ lastSelected' = 0
    /\ UNCHANGED options

\* update(options), with vm the view model visualTransform returned for options
update(vm) ==
    /\ viewModel' = [vm EXCEPT !.settings.diagonal = showDiagonal(vm.settings)]
    /\ clicked' = ""
    /\ trace' = <<>>
    /\ UNCHANGED <<lastSelected, options>>

----------------------------------------------------------------------------
Next ==
    \/ \E vm \in TransformedViewModels : update(vm)
    \/ \E button \in buttonNames : click(button)

Spec == Init /\ [][Next]_vars

----------------------------------------------------------------------------
(* Runs on one fixed data view: the host passes the same options to every   *)
(* update, so the view model is the same after each of them                 *)

InitFixed ==
    /\ viewModel = Undefined
    /\ lastSelected = 0
    /\ clicked = ""
    /\ trace = <<>>
    /\ options \in FixedDataViews

NextFixed ==
    \/ update(visualTransform(options))
    \/ \E button \in buttonNames : click(button)

SpecFixed == InitFixed /\ [][NextFixed]_vars

----------------------------------------------------------------------------
(* enumerateObjectInstances *)

\* enumerateObjectInstances(options) for options.objectName = objectName: the
\* instances pushed, read off this.visualSettings
enumerateObjectInstances(objectName) ==
    IF objectName = "settings"
    THEN << [objectName |-> objectName,
             properties |-> [horizontal  |-> viewModel.settings.horizontal,
                             vertical    |-> viewModel.settings.vertical,
                             diagonal    |-> viewModel.settings.diagonal,
                             incremental |-> viewModel.settings.incremental]] >>
    ELSE <<>>

----------------------------------------------------------------------------
(* Vocabulary of the properties: the quantities of the navigator's contract, *)
(* read off the current view model and the calls of the last handler         *)

Defined == viewModel # Undefined

H == Len(viewModel.horizontalDataPoints)
V == Len(viewModel.verticalDataPoints)

distinctLabels(dataPoints) == { dataPoints[i].category : i \in 1..Len(dataPoints) }
uh == Cardinality(distinctLabels(viewModel.horizontalDataPoints))
uv == Cardinality(distinctLabels(viewModel.verticalDataPoints))

incremental == viewModel.settings.incremental

Calls == { trace[i] : i \in 1..Len(trace) }

\* the call changed nothing: cursor kept, no handle activated, no error
NoOp(e) == e.after = e.before /\ e.selected = <<>> /\ ~e.threw /\ ~e.assigned

\* the call moved the cursor to t and activated the handle dataPoints[t]
MovedTo(e, t, dataPoints) ==
    /\ e.after = t
    /\ t \in 0..(Len(dataPoints) - 1)
    /\ e.selected = <<dataPoints[t + 1].selectionId>>
    /\ ~e.threw

VerticalInner(e)   == e.direction = "v" /\ viewModel.sortedBy = "horizontal"
HorizontalOuter(e) == e.direction = "h" /\ viewModel.sortedBy = "horizontal"
VerticalOuter(e)   == e.direction = "v" /\ viewModel.sortedBy = "vertical"
HorizontalInner(e) == e.direction = "h" /\ viewModel.sortedBy = "vertical"

\* first and last cursor of the group of size u that holds cursor c
GroupMin(c, u) == (c \div u) * u
GroupMax(c, u) == (c \div u) * u + u - 1

\* the position the bounds check of the call's case tests, and its bounds
Target(e) ==
    IF VerticalInner(e) \/ HorizontalInner(e) THEN e.before + e.step * incremental
    ELSE IF HorizontalOuter(e)
         THEN e.before + e.step * incremental * (IF V = 0 THEN 1 ELSE uv)
         ELSE e.before + e.step * incremental * (IF H = 0 THEN 1 ELSE uh)

ReachesBoundsCheck(e) ==
    \/ (VerticalInner(e) \/ VerticalOuter(e)) /\ V > 0
    \/ (HorizontalInner(e) \/ HorizontalOuter(e)) /\ H > 0

InBounds(e) ==
    IF VerticalInner(e)
    THEN GroupMin(e.before, uv) <= Target(e) /\ Target(e) <= GroupMax(e.before, uv)
    ELSE IF HorizontalInner(e)
    THEN GroupMin(e.before, uh) <= Target(e) /\ Target(e) <= GroupMax(e.before, uh)
    ELSE IF HorizontalOuter(e) THEN 0 <= Target(e) /\ Target(e) <= H - 1
    ELSE 0 <= Target(e) /\ Target(e) <= V - 1

----------------------------------------------------------------------------
(* C1 *)

\* C1: a step whose target position fails the bounds check is rejected: the
\* cursor keeps its value and no selection-service call is made.  It holds of
\* every call of every handler, so of the same rejected step repeated as well.
C1_RejectedStepChangesNothing ==
    Defined =>
        \A e \in Calls : (ReachesBoundsCheck(e) /\ ~InBounds(e)) => NoOp(e)

\* a vertical step rejected at the upper end of its group, away from cursor 0
C1_Witness ==
    /\ Defined
    /\ clicked = "up"
    /\ VerticalInner(trace[1]) /\ ReachesBoundsCheck(trace[1]) /\ ~InBounds(trace[1])
    /\ uv = 2 /\ V = 3
    /\ trace[1].before = 1 /\ lastSelected = 1

----------------------------------------------------------------------------
(* C2 *)

\* C2: group containment.  With sortedBy = horizontal every vertical step,
\* whatever its sign and the incremental, leaves the cursor in the group
\* [floor(c/uv)*uv, floor(c/uv)*uv + uv - 1] of the cursor c it started from; a
\* sequence of vertical steps on one view model therefore never leaves the
\* group of its first cursor.
C2_GroupContainment ==
    Defined =>
        \A e \in Calls :
            (VerticalInner(e) /\ V > 0) =>
                /\ GroupMin(e.before, uv) <= e.after
                /\ e.after <= GroupMax(e.before, uv)

\* a vertical step +1 from the last cursor of group 0 while a further row
\* exists: it stays at cursor 1
C2_Witness ==
    /\ Defined
    /\ clicked = "up"
    /\ VerticalInner(trace[1])
    /\ uv = 2 /\ V = 3 /\ incremental = 1
    /\ trace[1].before = 1 /\ trace[1].after = 1

----------------------------------------------------------------------------
(* C3 *)

\* C3: scaling correctness.  With both axes present and sortedBy = horizontal,
\* a horizontal step of sign s with incremental k moves the cursor by exactly
\* s*k*uv and activates horizontalDataPoints[cursor'] when cursor + s*k*uv lies
\* in [0, H-1]; otherwise the step is rejected and nothing changes.
C3_ScalingCorrectness ==
    Defined =>
        \A e \in Calls :
            (HorizontalOuter(e) /\ H > 0 /\ V > 0) =>
                LET t == e.before + e.step * incremental * uv
                IN  IF t \in 0..(H - 1)
                    THEN MovedTo(e, t, viewModel.horizontalDataPoints)
                    ELSE NoOp(e)

\* an accepted horizontal step that skips a group of two
C3_Witness ==
    /\ Defined
    /\ clicked = "right"
    /\ HorizontalOuter(trace[1])
    /\ H = 3 /\ V = 3 /\ uv = 2 /\ incremental = 1
    /\ trace[1].before = 0 /\ lastSelected = 2
    /\ trace[1].selected = <<viewModel.horizontalDataPoints[3].selectionId>>

----------------------------------------------------------------------------
(* C4 *)

\* every call of the last handler raised no error: it was a no-op, or it moved
\* the cursor to an index of the data points the handle is read from and
\* activated that handle
FailSilent ==
    \A e \in Calls :
        \/ NoOp(e)
        \/ MovedTo(e, e.after, dataPointsToUse(viewModel))

\* C4: fail-silent policy.  On every view model an update has built, a step
\* raises no error: it is a no-op, or it moves the cursor to an index of the
\* data points the handle is read from and activates that handle.  Stated for
\* the first case the claim names, both axes present and of equal length.
C4_FailSilentBothAxes ==
    (Defined /\ viewModel.numberOfAxis = 2 /\ H = V) => FailSilent

----------------------------------------------------------------------------
(* C5 *)

\* C5: after an update, if numberOfAxis = 0 or the axis the step's direction
\* addresses has length 0, the step is a no-op, whatever its sign, the
\* incremental and sortedBy.
C5_EmptyAxisNoOp ==
    Defined =>
        \A e \in Calls :
            (\/ viewModel.numberOfAxis = 0
             \/ e.direction = "h" /\ H = 0
             \/ e.direction = "v" /\ V = 0) => NoOp(e)

\* a vertical step on a view model with the horizontal axis only, after the
\* cursor has moved
C5_Witness ==
    /\ Defined
    /\ clicked = "down"
    /\ viewModel.numberOfAxis = 1 /\ V = 0 /\ H = 3
    /\ viewModel.sortedBy = "horizontal"
    /\ trace[1].direction = "v" /\ trace[1].before = 2 /\ lastSelected = 2

\* a click on a view model without axes
C5_WitnessNoAxis ==
    /\ Defined
    /\ clicked = "right"
    /\ viewModel.numberOfAxis = 0
    /\ Len(trace) = 1

----------------------------------------------------------------------------
(* C6 *)

----------------------------------------------------------------------------
(* C7 *)

\* C7: the incremental that step uses is an integer in [1,100], so the
\* effective displacement stepSign*incremental has the sign of stepSign and a
\* magnitude of at least 1.
C7_IncrementalInRange ==
    Defined =>
        /\ incremental \in 1..100
        /\ \A e \in Calls : e.step * (e.step * incremental) >= 1

----------------------------------------------------------------------------
(* C8 *)

diagonalButtons == {"diagNE", "diagNW", "diagSE", "diagSW"}

\* the cursor after the two steps of a diagonal button, each called on its own
\* from cursor c
ComposedCursor(button, c) ==
    LET s  == handlerSteps(button)
        c1 == step(viewModel, c, s[1][1], s[1][2]).lastSelected
    IN  step(viewModel, c1, s[2][1], s[2][2]).lastSelected

\* C8: diagonal composition.  With both axes non-empty, a diagonal click ends
\* in the cursor of its vertical step followed by its horizontal step, each
\* accepted or rejected on its own.
C8_DiagonalComposition ==
    (Defined /\ clicked \in diagonalButtons /\ H > 0 /\ V > 0) =>
        lastSelected = ComposedCursor(clicked, trace[1].before)

----------------------------------------------------------------------------
(* C9 *)

\* C9: single-axis stepping.  With the horizontal axis alone (V = 0, H > 0)
\* and sortedBy = horizontal, a horizontal step of sign s with incremental k
\* moves the cursor to cursor + s*k exactly when that lies in [0, H-1], and is
\* rejected otherwise.
C9_SingleAxisStepping ==
    Defined =>
        \A e \in Calls :
            (HorizontalOuter(e) /\ V = 0 /\ H > 0) =>
                LET t == e.before + e.step * incremental
                IN  IF t \in 0..(H - 1)
                    THEN MovedTo(e, t, viewModel.horizontalDataPoints)
                    ELSE NoOp(e)

\* with incremental 2 on three rows: the step from 0 reached 2, and the next
\* step +1 is rejected there
C9_Witness ==
    /\ Defined
    /\ clicked = "right"
    /\ HorizontalOuter(trace[1])
    /\ V = 0 /\ H = 3 /\ incremental = 2
    /\ trace[1].before = 2 /\ lastSelected = 2 /\ NoOp(trace[1])

\* the accepted step of the same scenario
C9_WitnessAccepted ==
    /\ Defined
    /\ clicked = "right"
    /\ HorizontalOuter(trace[1])
    /\ V = 0 /\ H = 3 /\ incremental = 2
    /\ trace[1].before = 0 /\ lastSelected = 2
    /\ trace[1].selected = <<viewModel.horizontalDataPoints[3].selectionId>>

----------------------------------------------------------------------------
(* C10 *)

\* the selection the calls of select of the last handler leave, from none
RECURSIVE selectionAfter(_, _)
selectionAfter(sel, t) ==
    IF t = <<>> THEN sel
    ELSE selectionAfter(IF Head(t).selected = <<>> THEN sel
                        ELSE select(sel, Head(t).selected[1]), Tail(t))

\* every step that passed its bounds check made one call of select, with the
\* handle at the new cursor, and the selection left is that single handle
SingleSelection ==
    /\ \A e \in Calls :
           e.assigned =>
               /\ e.after \in 0..(Len(dataPointsToUse(viewModel)) - 1)
               /\ e.selected = <<dataPointsToUse(viewModel)[e.after + 1].selectionId>>
    /\ Cardinality(selectionAfter({}, trace)) <= 1
    /\ (trace # <<>> /\ trace[Len(trace)].assigned) =>
           /\ lastSelected \in 0..(Len(dataPointsToUse(viewModel)) - 1)
           /\ selectionAfter({}, trace) =
                  {dataPointsToUse(viewModel)[lastSelected + 1].selectionId}

\* C10: single-selection semantics.  Every accepted step passes exactly one
\* handle, the one at the new cursor, to the selection service; the selection
\* the component establishes holds at most one handle, and after an accepted
\* step that handle is the one the current cursor indexes.  Stated for the
\* view models with both axes present and of equal length.
C10_SingleSelection ==
    (Defined /\ viewModel.numberOfAxis = 2 /\ H = V) => SingleSelection

----------------------------------------------------------------------------
(* C11 *)

\* C11: update replaces the view model and the settings, leaves the cursor as
\* it was and makes no call of step or of the selection service; the cursor a
\* click left is carried into the rebuilt view model.  (A step of the model
\* that ends with clicked = "" is a call of update.)
C11_UpdateKeepsCursor ==
    [][clicked' = "" =>
          /\ viewModel' # Undefined
          /\ lastSelected' = lastSelected
          /\ trace' = <<>>
          /\ selectionAfter({}, trace') = {}]_vars

\* a rebuild with a single row, reached with the cursor at 2
C11_Witness ==
    /\ Defined
    /\ clicked = ""
    /\ H = 1 /\ V = 0
    /\ lastSelected = 2

----------------------------------------------------------------------------
(* C12 *)

\* C12: vertical-outer stepping.  With sortedBy = vertical a vertical step of
\* sign s with incremental k targets cursor + s*k when the horizontal axis is
\* empty and cursor + s*k*uh when it is not; the step is accepted exactly when
\* the target lies in [0, V-1], and an accepted step moves the cursor there and
\* activates verticalDataPoints[cursor'].
C12_VerticalOuterStepping ==
    Defined =>
        \A e \in Calls :
            VerticalOuter(e) =>
                LET t == e.before + e.step * incremental * (IF H = 0 THEN 1 ELSE uh)
                IN  IF t \in 0..(V - 1)
                    THEN MovedTo(e, t, viewModel.verticalDataPoints)
                    ELSE NoOp(e)

\* an accepted vertical step that skips a group of two horizontal labels
C12_Witness ==
    /\ Defined
    /\ clicked = "up"
    /\ VerticalOuter(trace[1])
    /\ H = 3 /\ V = 3 /\ uh = 2 /\ incremental = 1
    /\ trace[1].before = 0 /\ lastSelected = 2
    /\ trace[1].selected = <<viewModel.verticalDataPoints[3].selectionId>>

\* an accepted vertical step with the vertical axis alone
C12_WitnessSingleAxis ==
    /\ Defined
    /\ clicked = "up"
    /\ VerticalOuter(trace[1])
    /\ H = 0 /\ V = 3 /\ incremental = 1
    /\ trace[1].before = 1 /\ lastSelected = 2
    /\ trace[1].selected = <<viewModel.verticalDataPoints[3].selectionId>>

----------------------------------------------------------------------------
(* C13 *)

----------------------------------------------------------------------------
(* C14 *)

\* the roles of the column at metadata position 0; none without columns
RolesAtPositionZero ==
    IF Len(options.columns) = 0 THEN {} ELSE options.columns[1].roles

\* C14: the view model builder sets sortedBy from metadata position 0 only.
\* sortedBy = horizontal iff the column at position 0 carries the
\* horizontalCategory role, sortedBy = vertical iff it carries the
\* verticalCategory role and not the horizontal one, and sortedBy is unset
\* otherwise, whatever the roles of the columns at positions >= 1.
C14_SortedByFromPositionZero ==
    Defined =>
        /\ viewModel.sortedBy \in {"horizontal", "vertical", ""}
        /\ viewModel.sortedBy = "horizontal"
               <=> "horizontalCategory" \in RolesAtPositionZero
        /\ viewModel.sortedBy = "vertical"
               <=> /\ "verticalCategory" \in RolesAtPositionZero
                   /\ "horizontalCategory" \notin RolesAtPositionZero

\* both category columns after a measure column: sortedBy stays unset
C14_Witness ==
    /\ Defined
    /\ options.columns = <<MCol, HCol, VCol>>
    /\ viewModel.sortedBy = ""
    /\ H > 0 /\ V > 0

\* a horizontal column at position 1 does not override the vertical one at 0
C14_WitnessNoOverride ==
    /\ Defined
    /\ options.columns = <<VCol, HCol>>
    /\ viewModel.sortedBy = "vertical"

\* a column with both roles at position 0
C14_WitnessBothRoles ==
    /\ Defined
    /\ options.columns = <<HVCol>>
    /\ viewModel.sortedBy = "horizontal"

----------------------------------------------------------------------------
(* C15 *)

\* the flags as configured in the objects of the options passed to update
configuredDiagonal   == getValue(options.objects, "settings", "diagonal", FALSE)
configuredHorizontal == getValue(options.objects, "settings", "horizontal", TRUE)
configuredVertical   == getValue(options.objects, "settings", "vertical", TRUE)

\* the diagonal flag the settings enumeration returns
enumeratedDiagonal == enumerateObjectInstances("settings")[1].properties.diagonal

\* C15: after every update the resolved diagonal setting, stored in the
\* settings and returned by the settings enumeration, is true only if the
\* configured diagonal, horizontal and vertical flags are all true; it is
\* false whenever horizontal or vertical is disabled.
C15_DiagonalNeedsBothArrows ==
    Defined =>
        /\ enumeratedDiagonal = viewModel.settings.diagonal
        /\ viewModel.settings.diagonal =>
               configuredDiagonal /\ configuredHorizontal /\ configuredVertical
        /\ (~configuredHorizontal \/ ~configuredVertical) =>
               ~viewModel.settings.diagonal

\* diagonal configured on with the horizontal arrows disabled: resolved off
C15_Witness ==
    /\ Defined
    /\ configuredDiagonal /\ ~configuredHorizontal /\ configuredVertical
    /\ ~enumeratedDiagonal

\* diagonal configured on with both pairs of arrows enabled: resolved on
C15_WitnessEnabled ==
    /\ Defined
    /\ configuredDiagonal /\ configuredHorizontal /\ configuredVertical
    /\ enumeratedDiagonal

----------------------------------------------------------------------------
(* C16 *)

\* the distinct labels of the inner axis, the one sortedBy does not name
innerDistinct == IF viewModel.sortedBy = "horizontal" THEN uv ELSE uh

\* a full grid: sortedBy set, both axes of the same length n > 0, a multiple
\* of the inner axis's number of distinct labels
FullGrid ==
    /\ Defined
    /\ viewModel.sortedBy \in {"horizontal", "vertical"}
    /\ H = V /\ H > 0
    /\ H % innerDistinct = 0

\* C16: cursor in range on a full grid.  On one fixed view model that is a
\* full grid of n rows, every state reached from the initial cursor 0 by steps
\* and diagonal clicks has 0 <= cursor <= n - 1.
C16_CursorInRange ==
    FullGrid => lastSelected \in 0..(H - 1)

\* a diagonal click on a grid of two by two that reached its last cell
C16_Witness ==
    /\ FullGrid
    /\ H = 4 /\ innerDistinct = 2 /\ incremental = 1
    /\ clicked = "diagNE"
    /\ trace[1].before = 0 /\ lastSelected = 3

----------------------------------------------------------------------------
(* C17 *)

\* C17: the cursor is 0 after construction and never negative, in every
\* state reached by any interleaving of updates, with whatever view models,
\* and clicks.
C17_CursorNeverNegative ==
    lastSelected >= 0

\* a step to below 0, with an incremental of at least 1, rejected at cursor 0
C17_Witness ==
    /\ Defined
    /\ clicked \in {"left", "down"}
    /\ incremental >= 1
    /\ ReachesBoundsCheck(trace[1])
    /\ trace[1].before = 0 /\ Target(trace[1]) < 0
    /\ lastSelected = 0

----------------------------------------------------------------------------
(* C18 *)

\* the calls of step the four arrow buttons make
singleSteps == { <<"v", 1>>, <<"v", -1>>, <<"h", 1>>, <<"h", -1>> }

\* C18: reversibility.  On one fixed view model, whenever a step (d, s) is
\* accepted from a cursor reached from the initial cursor 0, the opposite step
\* (d, -s) made right after it is accepted too and puts the cursor back.
C18_Reversibility ==
    Defined =>
        \A ds \in singleSteps :
            LET there == step(viewModel, lastSelected, ds[1], ds[2])
                back  == step(viewModel, there.lastSelected, ds[1], -ds[2])
            IN  there.assigned =>
                    back.assigned /\ back.lastSelected = lastSelected

----------------------------------------------------------------------------
(* C19 *)

\* the cursor after a vertical step of sign sv and then a horizontal step of
\* sign sh from cursor c, and after the same steps in the other order
verticalThenHorizontal(c, sv, sh) ==
    step(viewModel, step(viewModel, c, "v", sv).lastSelected, "h", sh).lastSelected

horizontalThenVertical(c, sv, sh) ==
    step(viewModel, step(viewModel, c, "h", sh).lastSelected, "v", sv).lastSelected

\* C19: commutativity on a full grid.  On a full grid of n rows, from every
\* cursor in [0, n-1], a vertical step followed by a horizontal step ends in
\* the same cursor as the same horizontal step followed by the same vertical
\* step; so a diagonal click ends where its two steps in the other order
\* would have ended.
C19_Commutativity ==
    FullGrid =>
        /\ \A c \in 0..(H - 1) : \A sv, sh \in {1, -1} :
               verticalThenHorizontal(c, sv, sh) = horizontalThenVertical(c, sv, sh)
        /\ clicked \in diagonalButtons =>
               lastSelected = horizontalThenVertical(trace[1].before,
                                                     handlerSteps(clicked)[1][2],
                                                     handlerSteps(clicked)[2][2])

\* a diagonal click on a grid of two by two whose two steps both moved the
\* cursor, from 0 to 3
C19_Witness ==
    /\ FullGrid
    /\ H = 4 /\ innerDistinct = 2 /\ incremental = 1
    /\ viewModel.sortedBy = "horizontal"
    /\ clicked = "diagNE"
    /\ Len(trace) = 2
    /\ trace[1].before = 0 /\ trace[1].after = 1 /\ trace[2].after = 3
    /\ horizontalThenVertical(0, 1, 1) = 3

----------------------------------------------------------------------------
(* C20 *)

\* C20: when the column at metadata position 0 carries neither category
\* role, sortedBy is unset and every step, in either direction, is a no-op:
\* the cursor keeps its value and no call of the selection service is made,
\* also with one or both axes present and non-empty.
C20_UnsortedNoOp ==
    (Defined
     /\ RolesAtPositionZero \cap {"horizontalCategory", "verticalCategory"} = {}) =>
        /\ viewModel.sortedBy = ""
        /\ \A e \in Calls : NoOp(e)
        /\ selectionAfter({}, trace) = {}
        /\ lastSelected = 0

\* a diagonal click with both axes present behind a measure column
C20_Witness ==
    /\ Defined
    /\ options.columns = <<MCol, HCol, VCol>>
    /\ H = 4 /\ V = 4 /\ uh = 2 /\ uv = 2
    /\ clicked = "diagNE"
    /\ Len(trace) = 2

\* a horizontal step with the horizontal axis alone behind a measure column
C20_WitnessOneAxis ==
    /\ Defined
    /\ options.columns = <<MCol, HCol>>
    /\ H = 3 /\ V = 0
    /\ clicked = "right"
    /\ Len(trace) = 1

----------------------------------------------------------------------------
(* C21 *)

\* the current view model with the three enable flags replaced
withFlags(h, v, d) ==
    [viewModel EXCEPT !.settings.horizontal = h, !.settings.vertical = v,
                      !.settings.diagonal = d]

\* C21: the outcome of step does not depend on the horizontal, vertical and
\* diagonal enable flags.  Two component states with the same cursor, axes,
\* sortedBy and incremental that differ in those flags give, for the same
\* direction and sign, the same new cursor and the same call of the selection
\* service (and the same error, if any).
C21_FlagsIndependence ==
    Defined =>
        \A h, v, d \in BOOLEAN : \A ds \in singleSteps :
            step(withFlags(h, v, d), lastSelected, ds[1], ds[2])
                = step(viewModel, lastSelected, ds[1], ds[2])

\* with the horizontal arrows disabled, a click on right still moved the
\* cursor as it does with them enabled
C21_Witness ==
    /\ Defined
    /\ ~viewModel.settings.horizontal /\ viewModel.settings.vertical
    /\ clicked = "right"
    /\ trace[1].before = 0 /\ lastSelected = 1
    /\ trace[1].selected # <<>>
    /\ step(withFlags(TRUE, TRUE, TRUE), 0, "h", 1).lastSelected = 1

----------------------------------------------------------------------------
(* C22 *)

\* C22: a click before the first update is a no-op: the cursor stays at 0,
\* no call of the selection service is made and no error is raised.
C22_ClickBeforeUpdate ==
    ~Defined =>
        /\ lastSelected = 0
        /\ selectionAfter({}, trace) = {}
        /\ \A e \in Calls : NoOp(e)

----------------------------------------------------------------------------
(* C23 *)

\* the row of the first occurrence of a label among the data points
firstOccurrence(dataPoints, label) ==
    CHOOSE i \in 1..Len(dataPoints) :
        /\ dataPoints[i].category = label
        /\ \A j \in 1..(i - 1) : dataPoints[j].category # label

\* unique is the sequence of the distinct labels of the data points, without
\* duplicates and in the order of their first occurrences, no longer than
\* the data points and not empty unless they are
Deduplicated(unique, dataPoints) ==
    /\ \A i, j \in 1..Len(unique) : unique[i] = unique[j] => i = j
    /\ { unique[i] : i \in 1..Len(unique) } = distinctLabels(dataPoints)
    /\ \A i, j \in 1..Len(unique) :
           i < j => firstOccurrence(dataPoints, unique[i])
                        < firstOccurrence(dataPoints, unique[j])
    /\ Len(unique) <= Len(dataPoints)
    /\ Len(dataPoints) > 0 => Len(unique) >= 1

\* C23: the distinct-label sequences step computes keep first-occurrence
\* order without duplicates, are no longer than the raw axis and have at
\* least one element whenever the raw axis is non-empty; so every call of
\* step that reaches the group computation floor(cursor / u) of an inner-axis
\* branch does so with u >= 1.
C23_Deduplication ==
    Defined =>
        /\ Deduplicated(uniqueVerticalCount(viewModel), viewModel.verticalDataPoints)
        /\ Deduplicated(uniqueHorizontalCount(viewModel), viewModel.horizontalDataPoints)
        /\ \A e \in Calls :
               /\ (VerticalInner(e) /\ V > 0) =>
                      Len(uniqueVerticalCount(viewModel)) >= 1
               /\ (HorizontalInner(e) /\ H > 0) =>
                      Len(uniqueHorizontalCount(viewModel)) >= 1

\* a vertical inner step on labels X, Y, X: the repeated X is dropped and the
\* group computation divided by 2
C23_Witness ==
    /\ Defined
    /\ V = 3
    /\ viewModel.verticalDataPoints[2].category = "Y"
    /\ viewModel.verticalDataPoints[3].category = "X"
    /\ uniqueVerticalCount(viewModel) = <<"X", "Y">>
    /\ clicked = "up"
    /\ VerticalInner(trace[1]) /\ trace[1].assigned

----------------------------------------------------------------------------
(* C24 *)

\* the cursors the two variants are compared from: the current one and the
\* initial cursor of the earlier variant
comparedCursors == {lastSelected, lastSelectedEarlier}

\* C24: the two variants agree on horizontal stepping when the vertical axis
\* is non-empty.  From the same cursor on the same axes, with sortedBy =
\* horizontal and incremental = 1 in src/src/visual.ts, a horizontal step of
\* sign s is accepted in both variants exactly when cursor + s*uv lies in
\* [0, H-1], leaves the same cursor in both and activates
\* horizontalDataPoints[cursor'] in both.
C24_VariantsAgreeOnHorizontal ==
    (Defined /\ viewModel.sortedBy = "horizontal" /\ incremental = 1 /\ V > 0) =>
        \A c \in comparedCursors : \A s \in {1, -1} :
            LET now     == step(viewModel, c, "h", s)
                earlier == stepEarlier(viewModel, c, "h", s)
                t       == c + s * uv
            IN  /\ earlier = now
                /\ now.assigned <=> t \in 0..(H - 1)
                /\ now.assigned =>
                       /\ now.lastSelected = t
                       /\ now.selected =
                              <<viewModel.horizontalDataPoints[t + 1].selectionId>>
                /\ ~now.assigned => now = Return(c)

\* a click on right that skipped a group of two, as the earlier variant's
\* step does from the same cursor
C24_Witness ==
    /\ Defined
    /\ viewModel.sortedBy = "horizontal" /\ incremental = 1
    /\ H = 3 /\ V = 3 /\ uv = 2
    /\ clicked = "right"
    /\ trace[1].before = 0 /\ lastSelected = 2
    /\ stepEarlier(viewModel, 0, "h", 1).lastSelected = 2
    /\ stepEarlier(viewModel, 0, "h", 1).selected = trace[1].selected

\* with the vertical axis empty the variants differ: the current one moved
\* by one row, the earlier one selects the row of the cursor again
C24_WitnessEmptyVertical ==
    /\ Defined
    /\ viewModel.sortedBy = "horizontal" /\ incremental = 1
    /\ H = 3 /\ V = 0
    /\ clicked = "right"
    /\ trace[1].before = 0 /\ lastSelected = 1
    /\ stepEarlier(viewModel, 0, "h", 1).lastSelected = 0
    /\ stepEarlier(viewModel, 0, "h", 1).selected # <<>>

\* in vertical stepping they differ: at the end of a group the current
\* variant rejects the step the earlier one accepts
C24_WitnessVertical ==
    /\ Defined
    /\ viewModel.sortedBy = "horizontal" /\ incremental = 1
    /\ H = 3 /\ V = 3 /\ uv = 1
    /\ clicked = "up"
    /\ trace[1].before = 0 /\ lastSelected = 0
    /\ stepEarlier(viewModel, 0, "v", 1).lastSelected = 1

====
